---- MODULE Spec2Model ----
(***************************************************************************)
(* rollping: read a host list from standard input, ping every host         *)
(* concurrently (one tokio task per host, `count` sequential attempts per  *)
(* host), reduce each host to its best round-trip time and print one line  *)
(* of aggregate statistics.  Model of src/src/main.rs.                     *)
(*                                                                         *)
(* Round-trip times are whole milliseconds.  Option<T> is a sequence of    *)
(* length 0 (None) or 1 (Some).  avg_ms is kept as the exact fraction      *)
(* <<sum, n>>.                                                             *)
(***************************************************************************)
EXTENDS Integers, Sequences, FiniteSets, TLC

\* ---------------------------------------------------------------- bounds
MaxLines == 2      \* lines on standard input
MaxCount == 2      \* args.count ranges over 0..MaxCount
MaxRtt == 2        \* round-trip times of a run: 10, 20, .. 10*MaxRtt ms
MaxResults == 4    \* HostResults handed to calculate_statistics on its own
MaxTime == 4       \* best times handed to it: 10, 20, .. 10*MaxTime ms
MaxArgLines == 2   \* lines on standard input when the arguments vary
MaxArgCount == 1   \* args.count ranges over 0..MaxArgCount when they vary
MaxTimeoutSecs == 2 \* args.timeout_secs ranges over 1..MaxTimeoutSecs then
MaxMore == 2       \* attempts a task taken up in mid-loop still has to make

\* The default of --timeout-secs, and the width of `i as u16`.
DefaultTimeoutSecs == 2
U16Modulus == 65536

Rtts == {10 * k : k \in 1..MaxRtt}
Times == {10 * k : k \in 1..MaxTime}

\* One item of stdin.lock().lines(): Ok(non-blank line), Ok(line that trims
\* to ""), or Err(io::Error) (for instance a line that is not UTF-8).
LineItems == {"host", "blank", "err"}

None == <<>>
Some(v) == <<v>>
IsSome(o) == Len(o) = 1
IsNone(o) == Len(o) = 0
Unwrap(o) == o[1]

VARIABLES
    stdin,        \* the items lines() yields before the stream ends
    stdin_end,    \* "eof", or "err": the read error persists (a directory)
    count,        \* args.count
    timeout_secs, \* args.timeout_secs
    geo,          \* args.geo
    entropy,      \* the values rand::random() can yield in this run
    location,     \* Option<Location> of main
    pc,           \* where main is: "geo", "read", "spawn", "join", "report",
                  \* "exit"
    hosts,        \* Vec<String> of main (a host is named by its line number)
    tasks,        \* the spawned host tasks, tasks[k] behind handles[k]
    joined,       \* handles awaited so far by ping_hosts
    results,      \* Vec<HostResult> of ping_hosts
    stdout,       \* the lines printed on standard output
    exit_status   \* <<>> while running, then <<code>>

\* What the run is given: it never changes.
given == <<stdin, stdin_end, count, timeout_secs, geo, entropy>>

vars == <<given, location, pc, hosts, tasks, joined, results, stdout,
          exit_status>>

\* ------------------------------------------------------------- sequences
RECURSIVE SeqSum(_)
SeqSum(s) == IF s = <<>> THEN 0 ELSE Head(s) + SeqSum(Tail(s))

RECURSIVE Insert(_, _)
Insert(x, s) ==
    IF s = <<>> THEN <<x>>
    ELSE IF x <= Head(s) THEN <<x>> \o s
    ELSE <<Head(s)>> \o Insert(x, Tail(s))

RECURSIVE SortAscending(_)
SortAscending(s) == IF s = <<>> THEN <<>> ELSE Insert(Head(s), SortAscending(Tail(s)))

SeqsUpTo(S, n) == UNION {[1..k -> S] : k \in 0..n}

\* ------------------------------------------------ read_hosts_from_stdin
RECURSIVE FilterMapLines(_, _)
FilterMapLines(s, k) ==
    IF k > Len(s) THEN <<>>
    ELSE (IF s[k] = "host" THEN <<k>> ELSE <<>>) \o FilterMapLines(s, k + 1)

read_hosts_from_stdin(s) == [ok |-> TRUE, hosts |-> FilterMapLines(s, 1)]

\* ------------------------------------------------------------ percentile
RoundHalfAwayFromZero(num, den) == (2 * num + den) \div (2 * den)

MinInt(a, b) == IF a <= b THEN a ELSE b

\* The cast truncates: .round() is missing.
PercentileIndex_Truncated(n, p) == (p * (n - 1)) \div 100

PercentileIndex(n, p) == RoundHalfAwayFromZero(p * (n - 1), 100)

percentile(sorted_values, p) ==
    IF sorted_values = <<>> THEN 0
    ELSE LET idx == PercentileIndex(Len(sorted_values), p)
         IN  sorted_values[MinInt(idx, Len(sorted_values) - 1) + 1]

\* -------------------------------------------------- calculate_statistics
\* An absent best time is taken as 0 instead of being filtered out.
SuccessfulTimes_AbsentAsZero(rs) ==
    [k \in 1..Len(rs) |->
        IF IsSome(rs[k].best_time_ms) THEN Unwrap(rs[k].best_time_ms) ELSE 0]

SuccessfulTimes(rs) ==
    LET present == SelectSeq(rs, LAMBDA r : IsSome(r.best_time_ms))
    IN  [k \in 1..Len(present) |-> Unwrap(present[k].best_time_ms)]

\* The filter keeps the hosts that answered.
NonResponsiveNodes_CountsPresent(rs) ==
    Len(SelectSeq(rs, LAMBDA r : IsSome(r.best_time_ms)))

NonResponsiveNodes(rs) == Len(SelectSeq(rs, LAMBDA r : IsNone(r.best_time_ms)))

\* The times are left in the order of the results.
SortTimes_Unsorted(times) == times

\* Only the times after the first are sorted.
SortTimes_SkipsFirst(times) ==
    IF times = <<>> THEN <<>> ELSE <<Head(times)>> \o SortAscending(Tail(times))

SortTimes(times) == SortAscending(times)

calculate_statistics(rs, pings_per_host, timeout, loc) ==
    LET successful_times == SuccessfulTimes(rs)
        non_responsive_nodes == NonResponsiveNodes(rs)
        total_hosts == Len(rs)
        sorted == SortTimes(successful_times)
    IN  IF successful_times = <<>>
        THEN [avg_ms |-> <<0, 1>>, median_ms |-> 0, p95_ms |-> 0, p99_ms |-> 0,
              max_ms |-> 0, non_responsive_nodes |-> non_responsive_nodes,
              total_hosts |-> total_hosts, pings_per_host |-> pings_per_host,
              timeout_secs |-> timeout, location |-> loc]
        ELSE [avg_ms |-> <<SeqSum(sorted), Len(sorted)>>,
              median_ms |-> percentile(sorted, 50),
              p95_ms |-> percentile(sorted, 95),
              p99_ms |-> percentile(sorted, 99),
              max_ms |-> sorted[Len(sorted)],
              non_responsive_nodes |-> non_responsive_nodes,
              total_hosts |-> total_hosts, pings_per_host |-> pings_per_host,
              timeout_secs |-> timeout, location |-> loc]

\* The report of main for an empty host list zeroes every field.
EmptyStatistics_ZeroesAll(pings_per_host, timeout, loc) ==
    [avg_ms |-> <<0, 1>>, median_ms |-> 0, p95_ms |-> 0, p99_ms |-> 0,
     max_ms |-> 0, non_responsive_nodes |-> 0, total_hosts |-> 0,
     pings_per_host |-> 0, timeout_secs |-> 0, location |-> loc]

EmptyStatistics(pings_per_host, timeout, loc) ==
    [avg_ms |-> <<0, 1>>, median_ms |-> 0, p95_ms |-> 0, p99_ms |-> 0,
     max_ms |-> 0, non_responsive_nodes |-> 0, total_hosts |-> 0,
     pings_per_host |-> pings_per_host, timeout_secs |-> timeout,
     location |-> loc]

\* ---------------------------------------------------- geolocation of main
\* GeoIpClient::new gives a reader or none (db), get_public_ip gives Ok or
\* Err (ip), lookup gives Some(Location) or None (found).  main goes on
\* whatever they give: fatal is never set.
Place == [country_code |-> "ZZ"]

\* A failure of the enrichment is propagated with `?`.
GeoLocation_Propagates(g, db, ip, found) ==
    [location |-> IF g /\ db /\ ip /\ found THEN Some(Place) ELSE None,
     fatal |-> g /\ ~(db /\ ip)]

GeoLocation(g, db, ip, found) ==
    [location |-> IF g
                  THEN IF db
                       THEN IF ip THEN (IF found THEN Some(Place) ELSE None)
                            ELSE None
                       ELSE None
                  ELSE None,
     fatal |-> FALSE]

\* ------------------------------------------------------------- ping_host
\* A host task.  pc: "start" (spawned, before Client::new), "loop" (between
\* attempts), "in_flight" (suspended in ping_once), "returned", "panicked".
\* min_time_ms and successful_pings are the locals of ping_host; i is the
\* loop variable; client_ok says that Client::new returned Ok.  The other
\* fields record what the task did: resolve_fails (to_socket_addrs calls that
\* failed), probes (echo requests sent), succeeded (the round-trip times of
\* the replies), in_flight (ping_once futures sent and not yet concluded or
\* dropped), seqs (the sequence numbers passed to ping_once), idents (the
\* PingIdentifiers of the pingers made).
NewTask ==
    [pc |-> "start", client_ok |-> FALSE, i |-> 0, min_time_ms |-> None,
     successful_pings |-> 0, resolve_fails |-> 0, probes |-> 0, succeeded |-> {},
     in_flight |-> 0, seqs |-> {}, idents |-> {}]

\* The task's state is dropped when it unwinds.
PanickedTask == [NewTask EXCEPT !.pc = "panicked"]

\* The last reply replaces the running minimum.
FoldMin_LastReply(min_time_ms, rtt_ms) == Some(rtt_ms)

FoldMin(min_time_ms, rtt_ms) ==
    IF IsNone(min_time_ms) THEN Some(rtt_ms)
    ELSE Some(MinInt(Unwrap(min_time_ms), rtt_ms))

\* An attempt that did not succeed ends the loop.
NextAttempt_BreakOnFailure(i, n, outcome) ==
    IF outcome.kind = "reply" THEN i + 1 ELSE n

\* The loop variable after an attempt with the given outcome.
NextAttempt(i, n, outcome) == i + 1

\* `i as u16`, line 214.
AsU16(i) == i % U16Modulus

\* The loop does not wait for the attempt it started.
CanBegin_Pipelined(t) == t.pc \in {"loop", "in_flight"}

\* .await of line 214: the loop goes on only when the attempt is over.
CanBegin(t) == t.pc = "loop"

\* What timeout(.., ping_once(..)).await yields once the echo is sent:
\* Ok(Ok(rtt)), Ok(Err(e)) or Err(Elapsed).
Reply(rtt) == [kind |-> "reply", rtt |-> rtt]
Failed == [kind |-> "failed", rtt |-> 0]
TimedOut == [kind |-> "timed_out", rtt |-> 0]
Outcomes == {Failed, TimedOut} \cup {Reply(rtt) : rtt \in Rtts}

\* --------------------------------------------------------------- actions
\* main has parsed its arguments and nothing else.
Started ==
    /\ pc = "geo"
    /\ location = None
    /\ hosts = <<>>
    /\ tasks = <<>>
    /\ joined = 0
    /\ results = <<>>
    /\ stdout = <<>>
    /\ exit_status = None

\* The runs with the default --timeout-secs and without --geo.
Init ==
    /\ stdin \in SeqsUpTo(LineItems, MaxLines)
    /\ stdin_end \in {"eof", "err"}
    /\ count \in 0..MaxCount
    /\ timeout_secs = DefaultTimeoutSecs
    /\ geo = FALSE
    /\ entropy = {0}
    /\ Started

\* main, lines 93-121: the location, if --geo asks for it and it can be had.
MainGeo ==
    /\ pc = "geo"
    /\ \E db, ip, found \in BOOLEAN :
         LET r == GeoLocation(geo, db, ip, found)
         IN  /\ location' = r.location
             /\ pc' = IF r.fatal THEN "exit" ELSE "read"
             /\ exit_status' = IF r.fatal THEN Some(1) ELSE exit_status
    /\ UNCHANGED <<given, hosts, tasks, joined, results, stdout>>

\* main, lines 123-143: read the hosts; with none, print the all-zero report.
\* lines() ends only at end of file: while the read error persists it yields
\* Err again and again, filter_map drops each, and collect() never returns.
MainReadHosts ==
    /\ pc = "read"
    /\ stdin_end = "eof"
    /\ LET r == read_hosts_from_stdin(stdin)
       IN  IF ~r.ok
           THEN /\ pc' = "exit"
                /\ exit_status' = Some(1)
                /\ UNCHANGED <<hosts, stdout>>
           ELSE IF r.hosts = <<>>
           THEN /\ hosts' = r.hosts
                /\ stdout' = Append(stdout,
                                  EmptyStatistics(count, timeout_secs, location))
                /\ pc' = "exit"
                /\ exit_status' = Some(0)
           ELSE /\ hosts' = r.hosts
                /\ pc' = "spawn"
                /\ UNCHANGED <<stdout, exit_status>>
    /\ UNCHANGED <<given, location, tasks, joined, results>>

\* ping_hosts, lines 179-183: spawn the task of the next host.
MainSpawn ==
    /\ pc = "spawn"
    /\ tasks' = Append(tasks, NewTask)
    /\ pc' = IF Len(tasks') = Len(hosts) THEN "join" ELSE "spawn"
    /\ UNCHANGED <<given, location, hosts, joined, results, stdout,
                   exit_status>>

TaskUnchanged == UNCHANGED <<given, location, pc, hosts, joined, results,
                             stdout, exit_status>>

\* ping_host, lines 201-208: Client::new; on Err return best_time_ms: None.
NewClient(h) ==
    /\ tasks[h].pc = "start"
    /\ \E ok \in BOOLEAN :
         tasks' = [tasks EXCEPT ![h].pc = IF ok THEN "loop" ELSE "returned",
                                ![h].client_ok = ok]
    /\ TaskUnchanged

\* ping_host line 214 into ping_once lines 246-252: resolve the host; on
\* failure the attempt ends at once with Ok(Err), else the echo is sent.
BeginAttempt(h) ==
    /\ CanBegin(tasks[h])
    /\ tasks[h].i < count
    /\ \E resolved \in BOOLEAN, id \in entropy :
         LET seq == AsU16(tasks[h].i)
         IN  tasks' = IF resolved
                      THEN [tasks EXCEPT ![h].pc = "in_flight",
                                         ![h].seqs = @ \cup {seq},
                                         ![h].idents = @ \cup {id},
                                         ![h].in_flight = @ + 1,
                                         ![h].probes = @ + 1]
                      ELSE [tasks EXCEPT ![h].seqs = @ \cup {seq},
                                         ![h].resolve_fails = @ + 1,
                                         ![h].i = NextAttempt(@, count, Failed)]
    /\ TaskUnchanged

\* ping_host lines 214-227: the attempt ends by a reply, a failure or the
\* timeout.
EndAttempt(h) ==
    /\ tasks[h].pc = "in_flight"
    /\ \E outcome \in Outcomes :
         tasks' = IF outcome.kind = "reply"
                  THEN [tasks EXCEPT ![h].pc = "loop",
                                     ![h].in_flight = @ - 1,
                                     ![h].min_time_ms = FoldMin(@, outcome.rtt),
                                     ![h].successful_pings = @ + 1,
                                     ![h].succeeded = @ \cup {outcome.rtt},
                                     ![h].i = NextAttempt(@, count, outcome)]
                  ELSE [tasks EXCEPT ![h].pc = "loop",
                                     ![h].in_flight = @ - 1,
                                     ![h].i = NextAttempt(@, count, outcome)]
    /\ TaskUnchanged

\* ping_host lines 228-241: the loop is over, return the HostResult.
Return(h) ==
    /\ tasks[h].pc = "loop"
    /\ tasks[h].i >= count
    /\ tasks' = [tasks EXCEPT ![h].pc = "returned"]
    /\ TaskUnchanged

\* The task panics: its JoinHandle will yield Err(JoinError).
Panic(h) ==
    /\ tasks[h].pc \in {"start", "loop", "in_flight"}
    /\ tasks' = [tasks EXCEPT ![h] = PanickedTask]
    /\ TaskUnchanged

\* The handle never completes when its task panicked.
HandleReady_OnlyReturned(t) == t.pc = "returned"

\* The handle is not awaited: the task is taken as it is.
HandleReady_NoWait(t) == TRUE

\* handle.await, line 187, suspends main until the task has finished.
HandleReady(t) == t.pc \in {"returned", "panicked"}

\* handle.await, line 187.
HandleAwait(t) ==
    IF t.pc = "returned"
    THEN [ok |-> TRUE, value |-> [best_time_ms |-> t.min_time_ms]]
    ELSE [ok |-> FALSE]

\* The match of lines 187-192.
CollectResult(rs, r) == IF r.ok THEN Append(rs, r.value) ELSE rs

\* The join loop gives up at the first JoinError.
NextHandle_BreakOnError(j, n, r) == IF r.ok THEN j + 1 ELSE n

\* The for loop of line 186: the handles awaited after this one.
NextHandle(j, n, r) == j + 1

\* ping_hosts, lines 186-193: await the next handle, in spawn order.
MainJoin ==
    /\ pc = "join"
    /\ joined < Len(tasks)
    /\ HandleReady(tasks[joined + 1])
    /\ LET r == HandleAwait(tasks[joined + 1])
       IN  /\ results' = CollectResult(results, r)
           /\ joined' = NextHandle(joined, Len(tasks), r)
    /\ pc' = IF joined' >= Len(tasks) THEN "report" ELSE "join"
    /\ UNCHANGED <<given, location, hosts, tasks, stdout, exit_status>>

\* main, lines 150-159: compute the statistics, print them, return Ok(()).
MainReport ==
    /\ pc = "report"
    /\ stdout' = Append(stdout, calculate_statistics(results, count,
                                                     timeout_secs, location))
    /\ pc' = "exit"
    /\ exit_status' = Some(0)
    /\ UNCHANGED <<given, location, hosts, tasks, joined, results>>

Handles == 1..Len(tasks)

Next ==
    \/ MainGeo
    \/ MainReadHosts
    \/ MainSpawn
    \/ \E h \in Handles : NewClient(h)
    \/ \E h \in Handles : BeginAttempt(h)
    \/ \E h \in Handles : EndAttempt(h)
    \/ \E h \in Handles : Return(h)
    \/ \E h \in Handles : Panic(h)
    \/ MainJoin
    \/ MainReport

Spec == Init /\ [][Next]_vars

\* ------------------------------------ calculate_statistics on its own
\* The run at line 150, about to compute the statistics of any HostResults:
\* every host task has returned and has been joined.  A host with best time
\* t answered its one attempt in t ms; a host without one failed to resolve.
ReturnedTask(r) ==
    IF IsSome(r.best_time_ms)
    THEN [NewTask EXCEPT !.pc = "returned", !.client_ok = TRUE, !.i = 1,
                         !.min_time_ms = r.best_time_ms, !.successful_pings = 1,
                         !.probes = 1, !.succeeded = {Unwrap(r.best_time_ms)},
                         !.seqs = {0}, !.idents = {0}]
    ELSE [NewTask EXCEPT !.pc = "returned", !.client_ok = TRUE, !.i = 1,
                         !.resolve_fails = 1, !.seqs = {0}]

HostResults == {[best_time_ms |-> o] : o \in {None} \cup {Some(t) : t \in Times}}

InitStats ==
    /\ results \in SeqsUpTo(HostResults, MaxResults) \ {<<>>}
    /\ stdin = [k \in 1..Len(results) |-> "host"]
    /\ stdin_end = "eof"
    /\ count = 1
    /\ timeout_secs = DefaultTimeoutSecs
    /\ geo = FALSE
    /\ entropy = {0}
    /\ location = None
    /\ pc = "report"
    /\ hosts = [k \in 1..Len(results) |-> k]
    /\ tasks = [k \in 1..Len(results) |-> ReturnedTask(results[k])]
    /\ joined = Len(results)
    /\ stdout = <<>>
    /\ exit_status = None

NextStats == MainReport

SpecStats == InitStats /\ [][NextStats]_vars

\* ------------------------------------------- the runs of every argument
\* --geo given or not, --timeout-secs 1 .. MaxTimeoutSecs, over fewer hosts
\* and attempts.
InitArgs ==
    /\ stdin \in SeqsUpTo(LineItems, MaxArgLines)
    /\ stdin_end \in {"eof", "err"}
    /\ count \in 0..MaxArgCount
    /\ timeout_secs \in 1..MaxTimeoutSecs
    /\ geo \in BOOLEAN
    /\ entropy = {0}
    /\ Started

SpecArgs == InitArgs /\ [][Next]_vars

\* The tokio runtime keeps running main and the host tasks: while the run can
\* take a step it eventually takes one.  An attempt in flight can always end,
\* by the timeout of line 214 at the latest.
Fairness == WF_vars(Next)

\* The runs whose completion is checked: any input, any count up to
\* MaxArgCount, geolocation requested or not, the default timeout.
InitFair ==
    /\ stdin \in SeqsUpTo(LineItems, MaxArgLines)
    /\ stdin_end \in {"eof", "err"}
    /\ count \in 0..MaxArgCount
    /\ timeout_secs = DefaultTimeoutSecs
    /\ geo \in BOOLEAN
    /\ entropy = {0}
    /\ Started

FairSpec == InitFair /\ [][Next]_vars /\ Fairness

\* ------------------------------------------- a host task in mid-loop
\* One host, joined by ping_hosts, whose task is about to make attempt k
\* after k attempts that failed to resolve; rand::random() has two values.
AttemptIndices == {0, U16Modulus - 1, U16Modulus}

MidLoopTask(k) ==
    [NewTask EXCEPT !.pc = "loop", !.client_ok = TRUE, !.i = k,
                    !.resolve_fails = k,
                    !.seqs = {AsU16(j) : j \in 0..(k - 1)}]

InitProbes ==
    /\ stdin = <<"host">>
    /\ stdin_end = "eof"
    /\ \E k \in AttemptIndices :
          /\ count \in (k + 1)..(k + MaxMore)
          /\ tasks = <<MidLoopTask(k)>>
    /\ timeout_secs = DefaultTimeoutSecs
    /\ geo = FALSE
    /\ entropy = {0, 1}
    /\ location = None
    /\ pc = "join"
    /\ hosts = <<1>>
    /\ joined = 0
    /\ results = <<>>
    /\ stdout = <<>>
    /\ exit_status = None

NextProbes ==
    \/ \E h \in Handles : BeginAttempt(h)
    \/ \E h \in Handles : EndAttempt(h)
    \/ \E h \in Handles : Return(h)
    \/ \E h \in Handles : Panic(h)
    \/ MainJoin
    \/ MainReport

SpecProbes == InitProbes /\ [][NextProbes]_vars

\* ----------------------------------------------------------------- claims
Hosts == 1..Len(hosts)
Finished(h) == h \in Handles /\ tasks[h].pc \in {"returned", "panicked"}
Returned(h) == h \in Handles /\ tasks[h].pc = "returned"
Panicked(h) == h \in Handles /\ tasks[h].pc = "panicked"
Reported == pc = "exit" /\ Len(stdout) = 1
Report == stdout[1]
\* The hosts were pinged and the run is over.
RunOver == pc = "exit" /\ hosts # <<>>

\* C1: ping_hosts returns exactly one HostResult per input host, whatever
\* the host tasks did (answered, did not answer, panicked), so the report
\* has total_hosts = n and non_responsive_nodes <= n.
C1_OneResultPerHost ==
    /\ (pc \in {"report", "exit"} /\ hosts # <<>>) => Len(results) = Len(hosts)
    /\ (RunOver /\ Reported) =>
          /\ Report.total_hosts = Len(hosts)
          /\ Report.non_responsive_nodes <= Len(hosts)

\* C2: non_responsive_nodes is the number of input hosts without a
\* successful probe: the hosts that returned no best time (no resolution, no
\* client, every attempt failed or timed out) and the hosts whose task
\* panicked.
NoSuccessfulProbe(h) == Panicked(h) \/ (Returned(h) /\ tasks[h].succeeded = {})

C2_FailuresCountAsNonResponsive ==
    (RunOver /\ Reported) =>
        Report.non_responsive_nodes =
            Cardinality({h \in Hosts : NoSuccessfulProbe(h)})

\* C3: a panicking host task aborts neither its siblings nor the run.  When
\* the run is over every host task has finished, the results are exactly the
\* HostResults of the tasks that returned, in spawn order and unchanged, one
\* report over them has been printed and the exit status is 0; and a handle
\* whose task has finished, by a return or by a panic, can be joined.
ReturnedBefore(h) == Cardinality({g \in 1..h : Returned(g)})

C3_FailureIsolation ==
    /\ RunOver =>
          /\ \A h \in Hosts : Finished(h)
          /\ Len(results) = Cardinality({h \in Hosts : Returned(h)})
          /\ \A h \in Hosts : Returned(h) =>
                results[ReturnedBefore(h)] = [best_time_ms |-> tasks[h].min_time_ms]
          /\ Reported
          /\ Report.total_hosts = Len(results)
          /\ exit_status = Some(0)
    /\ (pc = "join" /\ Finished(joined + 1)) => ENABLED MainJoin
    /\ pc = "join" => joined < Len(tasks)

\* A task panicked, a sibling joined after it returned a best time, and the
\* run is over.
C3_Witness ==
    /\ RunOver
    /\ \E h, g \in Hosts :
          h < g /\ Panicked(h) /\ Returned(g) /\ IsSome(tasks[g].min_time_ms)


\* C4: when no HostResult has a best time, calculate_statistics returns the
\* five latency fields 0 and non_responsive_nodes = total_hosts.
NoneResponsive == \A k \in 1..Len(results) : IsNone(results[k].best_time_ms)

C4_AllZeroWhenNoneResponsive ==
    (Reported /\ NoneResponsive) =>
        /\ Report.avg_ms[1] = 0
        /\ Report.median_ms = 0
        /\ Report.p95_ms = 0
        /\ Report.p99_ms = 0
        /\ Report.max_ms = 0
        /\ Report.non_responsive_nodes = Report.total_hosts
        /\ Report.total_hosts = Len(results)

C4_Witness == Reported /\ NoneResponsive /\ Len(results) >= 2

\* C5: over the ascending best times s of the report, of length n > 0, the
\* percentile p is s at the 0-based index k of 0..n-1 nearest to p/100*(n-1),
\* the upper one when two are equally near; for 10, 20, 30, 40 the median is
\* 30 and p95 is 40.
Ascending == SortAscending(SuccessfulTimes(results))

NearestRank(k, n, p) ==
    /\ k \in 0..(n - 1)
    /\ 100 * k - 50 <= p * (n - 1)
    /\ p * (n - 1) < 100 * k + 50

C5_NearestRankPercentile ==
    (Reported /\ Ascending # <<>>) =>
        LET n == Len(Ascending)
        IN  /\ \E k \in 0..(n - 1) :
                  NearestRank(k, n, 50) /\ Report.median_ms = Ascending[k + 1]
            /\ \E k \in 0..(n - 1) :
                  NearestRank(k, n, 95) /\ Report.p95_ms = Ascending[k + 1]
            /\ \E k \in 0..(n - 1) :
                  NearestRank(k, n, 99) /\ Report.p99_ms = Ascending[k + 1]
            /\ Ascending = <<10, 20, 30, 40>> =>
                  Report.median_ms = 30 /\ Report.p95_ms = 40

C5_Witness == Reported /\ Ascending = <<10, 20, 30, 40>>

\* C6: with at least one best time, median_ms <= p95_ms <= p99_ms <= max_ms,
\* and with exactly one all four are that best time.
C6_PercentilesOrdered ==
    (Reported /\ Ascending # <<>>) =>
        /\ Report.median_ms <= Report.p95_ms
        /\ Report.p95_ms <= Report.p99_ms
        /\ Report.p99_ms <= Report.max_ms
        /\ Len(Ascending) = 1 =>
              /\ Report.median_ms = Ascending[1]
              /\ Report.p95_ms = Ascending[1]
              /\ Report.p99_ms = Ascending[1]
              /\ Report.max_ms = Ascending[1]

\* Three best times come in descending order, with a host in between that
\* did not answer.
C6_Witness ==
    /\ Reported
    /\ Len(Ascending) = 3
    /\ SuccessfulTimes(results) = <<30, 20, 10>>
    /\ Report.non_responsive_nodes = 1
    /\ Report.median_ms < Report.max_ms

\* C7: a host's best time is absent iff none of its attempts succeeded, and
\* otherwise it is the least round-trip time among the attempts that
\* succeeded.  It is a function of the set of those times alone: neither their
\* order nor the failed and timed-out attempts between them change it.  The
\* HostResult a task returns, and the one ping_hosts collects, carry it.
IsLeast(m, S) == m \in S /\ \A x \in S : m <= x

BestTimeIsLeast(t) ==
    /\ IsNone(t.min_time_ms) <=> t.succeeded = {}
    /\ IsSome(t.min_time_ms) => IsLeast(Unwrap(t.min_time_ms), t.succeeded)

C7_BestTimeIsMinimum ==
    /\ \A h \in Handles : BestTimeIsLeast(tasks[h])
    /\ \A h \in Handles :
          (Returned(h) /\ ReturnedBefore(h) <= Len(results) /\ h <= joined) =>
              BestTimeIsLeast([tasks[h] EXCEPT !.min_time_ms =
                                   results[ReturnedBefore(h)].best_time_ms])

\* A host answered in 10 ms and in 20 ms, in either order, and its result was
\* collected.
C7_Witness ==
    \E h \in Handles :
        /\ Returned(h)
        /\ h <= joined
        /\ tasks[h].succeeded = {10, 20}
        /\ results[ReturnedBefore(h)].best_time_ms = Some(10)

\* C8: a host that cannot be resolved gets no probe attempt: the first
\* resolution failure ends the host's attempts (no echo request is sent for
\* the host and the resolution is not tried again), and the host returns an
\* absent best time.
C8_ResolutionFailureEndsAttempts ==
    \A h \in Handles :
        tasks[h].resolve_fails > 0 =>
            /\ tasks[h].resolve_fails = 1
            /\ tasks[h].probes = 0
            /\ IsNone(tasks[h].min_time_ms)

\* C9: a failed or timed-out attempt does not end the loop.  Every attempt
\* up to the loop variable was issued (it failed to resolve or sent its echo
\* request), whatever the earlier attempts gave; a task with a client returns
\* after exactly count attempts; and it returns a best time iff one of them
\* succeeded.
Issued(t) == t.resolve_fails + t.probes
NotSucceeded(t) == Issued(t) - t.successful_pings

C9_FailedAttemptDoesNotEndLoop ==
    \A h \in Handles :
        /\ tasks[h].pc = "loop" => Issued(tasks[h]) = tasks[h].i
        /\ tasks[h].pc = "in_flight" => Issued(tasks[h]) = tasks[h].i + 1
        /\ tasks[h].pc \in {"loop", "in_flight"} => tasks[h].i <= count
        /\ (Returned(h) /\ tasks[h].client_ok) =>
              /\ Issued(tasks[h]) = count
              /\ IsSome(tasks[h].min_time_ms) <=> tasks[h].successful_pings > 0

\* A task returned a best time although one of its attempts did not succeed.
C9_Witness ==
    \E h \in Handles :
        /\ Returned(h)
        /\ tasks[h].client_ok
        /\ NotSucceeded(tasks[h]) >= 1
        /\ tasks[h].successful_pings >= 1
        /\ IsSome(tasks[h].min_time_ms)

\* C10: a read error on standard input is fatal: once the input has been
\* read with an error, the run is over with a non-zero exit status, no host
\* task was spawned and nothing was printed.
ReadError == \E k \in 1..Len(stdin) : stdin[k] = "err"

C10_ReadErrorIsFatal ==
    (ReadError /\ pc \notin {"geo", "read"}) =>
        /\ pc = "exit"
        /\ IsSome(exit_status) /\ Unwrap(exit_status) # 0
        /\ tasks = <<>>
        /\ stdout = <<>>

\* C11: with no host on standard input no task is spawned, and the run ends
\* with exit status 0 and exactly one report: total_hosts 0,
\* non_responsive_nodes 0, the five latency fields 0, pings_per_host and
\* timeout_secs as given.
C11_EmptyInputReportsZeros ==
    (pc = "exit" /\ hosts = <<>>) =>
        /\ tasks = <<>>
        /\ Len(stdout) = 1
        /\ Report.total_hosts = 0
        /\ Report.non_responsive_nodes = 0
        /\ Report.avg_ms[1] = 0
        /\ Report.median_ms = 0
        /\ Report.p95_ms = 0
        /\ Report.p99_ms = 0
        /\ Report.max_ms = 0
        /\ Report.pings_per_host = count
        /\ Report.timeout_secs = timeout_secs
        /\ exit_status = Some(0)

\* Two blank lines, one attempt asked for, a timeout that is not the default.
C11_Witness ==
    /\ pc = "exit"
    /\ stdin = <<"blank", "blank">>
    /\ count = 1
    /\ timeout_secs = 1
    /\ Len(stdout) = 1

\* C12: once the input has been read the run completes, provided every
\* attempt ends and the scheduler keeps running what can run: every host task
\* has finished, one report has been printed (never more than one) and the
\* exit status is 0, also when no host answered.
InputRead == pc \notin {"geo", "read"}

Completed ==
    /\ pc = "exit"
    /\ \A h \in Hosts : Finished(h)
    /\ Len(stdout) = 1
    /\ exit_status = Some(0)

Concluded(t) == Issued(t) - t.in_flight

C13_OneAttemptInFlightPerHost ==
    \A h \in Handles :
        /\ tasks[h].in_flight \in {0, 1}
        /\ tasks[h].in_flight = 1 <=> tasks[h].pc = "in_flight"
        /\ Concluded(tasks[h]) = tasks[h].i
        /\ tasks[h].i <= count
        /\ tasks[h].seqs = {AsU16(j) : j \in 0..(Issued(tasks[h]) - 1)}

\* Two hosts have an attempt in flight at the same time, one of them its
\* second attempt.
C13_Witness ==
    \E h, g \in Handles :
        /\ h # g
        /\ tasks[h].in_flight = 1
        /\ tasks[g].in_flight = 1
        /\ tasks[h].i = 1


\* C14: no partial result collection.  The statistics are computed and
\* printed only once one task per host has been spawned and every one of
\* them has finished, by a return or by a panic; and at every moment the
\* handles already joined belong to finished tasks, which are the only
\* source of results.
Joining == pc \in {"join", "report", "exit"} /\ hosts # <<>>

C14_ReportAfterAllTasks ==
    /\ Joining =>
          /\ Len(tasks) = Len(hosts)
          /\ \A h \in 1..joined : Finished(h)
          /\ Len(results) <= joined
    /\ ((pc \in {"report", "exit"} \/ stdout # <<>>) /\ hosts # <<>>) =>
          /\ joined = Len(tasks)
          /\ \A h \in Hosts : Finished(h)
          /\ \A h \in Hosts : tasks[h].in_flight = 0

\* The statistics are about to be computed over the results of two hosts
\* whose tasks ran for different lengths: two probes sent to the first,
\* none to the second.
C14_Witness ==
    /\ pc = "report"
    /\ stdout = <<>>
    /\ Len(hosts) = 2
    /\ Len(results) = 2
    /\ tasks[1].probes = 2
    /\ tasks[2].probes = 0


\* C15: any two distinct attempts made to one host in one run carry distinct
\* 16-bit sequence numbers: the attempts issued to a host so far carry as
\* many sequence numbers as there are attempts.
C15_SequenceNumbersDistinct ==
    \A h \in Handles : Cardinality(tasks[h].seqs) = Issued(tasks[h])

\* C16: the ICMP identifier is drawn once per host task and is the same in
\* all the probes of that host: the probes sent to a host carry at most one
\* identifier.
C16_OneIdentifierPerHost ==
    \A h \in Handles : Cardinality(tasks[h].idents) <= 1


\* C17: the statistics do not depend on the order of the HostResults: for
\* every permutation of the results the report was computed from,
\* calculate_statistics gives the same avg_ms, median_ms, p95_ms, p99_ms,
\* max_ms, non_responsive_nodes and total_hosts as the report.
Reorderings(n) == {q \in [1..n -> 1..n] : \A k \in 1..n : \E j \in 1..n : q[j] = k}

Permuted(rs, q) == [k \in 1..Len(rs) |-> rs[q[k]]]

StatisticsFields(st) ==
    <<st.avg_ms, st.median_ms, st.p95_ms, st.p99_ms, st.max_ms,
      st.non_responsive_nodes, st.total_hosts>>

C17_OrderIndependent ==
    Reported =>
        \A q \in Reorderings(Len(results)) :
            StatisticsFields(calculate_statistics(Permuted(results, q), count,
                                               timeout_secs, location))
                = StatisticsFields(Report)

\* A report over four results that are not in ascending order of best time
\* and of which one is absent, so that reordering moves both.
C17_Witness ==
    /\ Reported
    /\ results = <<[best_time_ms |-> Some(40)], [best_time_ms |-> None],
                   [best_time_ms |-> Some(10)], [best_time_ms |-> Some(20)]>>
    /\ Report.max_ms = 40
    /\ Report.non_responsive_nodes = 1


\* C19: calculate_statistics partitions the results exactly:
\* non_responsive_nodes plus the number of results with a present best time
\* is total_hosts, the number of results; and the latency fields come from
\* the present best times only: avg_ms is their sum over their number,
\* max_ms is the greatest of them, and each percentile is one of them.
Present == {k \in 1..Len(results) : IsSome(results[k].best_time_ms)}

PresentTime(k) == Unwrap(results[k].best_time_ms)

RECURSIVE SumPresentUpTo(_)
SumPresentUpTo(k) ==
    IF k = 0 THEN 0
    ELSE (IF k \in Present THEN PresentTime(k) ELSE 0) + SumPresentUpTo(k - 1)

C19_ExactPartition ==
    Reported =>
        /\ Report.total_hosts = Len(results)
        /\ Report.non_responsive_nodes + Cardinality(Present) = Report.total_hosts
        /\ Present # {} =>
              /\ Report.avg_ms = <<SumPresentUpTo(Len(results)), Cardinality(Present)>>
              /\ \E k \in Present : Report.max_ms = PresentTime(k)
              /\ \A k \in Present : PresentTime(k) <= Report.max_ms
              /\ \A f \in {Report.median_ms, Report.p95_ms, Report.p99_ms} :
                    \E k \in Present : f = PresentTime(k)

\* A report over two present and two absent best times, present and absent
\* interleaved.
C19_Witness ==
    /\ Reported
    /\ Present = {2, 4}
    /\ Len(results) = 4
    /\ Report.avg_ms = <<50, 2>>
    /\ Report.non_responsive_nodes = 2


\* C18: geolocation enrichment does not interfere with the core run.  A run
\* ends only by printing its one report with exit status 0, whether the
\* enrichment was disabled, failed or yielded a location; the report carries
\* a location exactly when the enrichment yielded one, which needs --geo;
\* and every other field of the report is what the host list, the
\* parameters and the outcomes of the host tasks determine, the same for
\* every outcome of the enrichment.
RECURSIVE TaskResults(_)
TaskResults(k) ==
    IF k = 0 THEN <<>>
    ELSE TaskResults(k - 1) \o
         (IF Returned(k) THEN <<[best_time_ms |-> tasks[k].min_time_ms]>> ELSE <<>>)

WithoutLocation(st) == [st EXCEPT !.location = None]

CoreReport(loc) ==
    IF hosts = <<>>
    THEN EmptyStatistics(count, timeout_secs, loc)
    ELSE calculate_statistics(TaskResults(Len(tasks)), count, timeout_secs, loc)

Locations == {None, Some(Place)}

C18_EnrichmentDoesNotInterfere ==
    /\ pc # "geo" => (IsSome(location) => geo)
    /\ pc = "exit" => (Reported /\ exit_status = Some(0))
    /\ Reported =>
          /\ Report.location = location
          /\ \A loc \in Locations :
                WithoutLocation(Report) = WithoutLocation(CoreReport(loc))

\* The enrichment was requested and failed; the run still pinged its two
\* hosts, one of which answered, and printed the report without a location.
C18_Witness ==
    /\ Reported
    /\ geo
    /\ IsNone(Report.location)
    /\ Len(hosts) = 2
    /\ Report.non_responsive_nodes = 1
    /\ Report.total_hosts = 2


\* C20: with count = 0 and at least one host no probe is ever sent and no
\* attempt is made; once the run is over every host task has returned an
\* absent best time, and the report has total_hosts = n,
\* non_responsive_nodes = n and all latency fields 0, n being the number of
\* hosts.
C20_ZeroCountReportsAllNonResponsive ==
    (count = 0 /\ hosts # <<>>) =>
        /\ \A h \in Handles : Issued(tasks[h]) = 0 /\ tasks[h].in_flight = 0
        /\ RunOver =>
              /\ \A h \in Hosts : Returned(h) /\ IsNone(tasks[h].min_time_ms)
              /\ Reported
              /\ Report.total_hosts = Len(hosts)
              /\ Report.non_responsive_nodes = Len(hosts)
              /\ Report.avg_ms[1] = 0
              /\ Report.median_ms = 0
              /\ Report.p95_ms = 0
              /\ Report.p99_ms = 0
              /\ Report.max_ms = 0

====
